---- MODULE Spec2Model ----
(***************************************************************************)
(* Model of src/add_icons.py: the icon overlay mapper                      *)
(* (create_icon_overlay) and the frame pipeline (process_video) with its   *)
(* external-encoder attempt and its OpenCV fallback.                       *)
(*                                                                         *)
(* The specifications share the variables:                                   *)
(*   Spec         one run of process_video, step by step;                  *)
(*   SpecOverlay  create_icon_overlay applied to inputs drawn from         *)
(*                bounded sets;                                            *)
(*   SpecCmd      get_ffmpeg_command applied to inputs and probe outcomes  *)
(*                drawn from bounded sets;                                 *)
(*   SpecMain     one run of main: the input check, the call of            *)
(*                process_video and the end of the script.                 *)
(***************************************************************************)
EXTENDS Integers, Sequences, FiniteSets, TLC

VARIABLES
    pc,                \* position of process_video in its code
    canOpen,           \* input: cv2.VideoCapture(input).isOpened()
    nFrames,           \* input: frames the source file holds
    totalFrames,       \* input: CAP_PROP_FRAME_COUNT as reported (0 = unknown)
    actualFps,         \* input: CAP_PROP_FPS as reported
    action_list,       \* input: the action labels
    fpaArg,            \* input: the frames_per_action argument (None or int)
    fpsHint,           \* input: the fps argument of process_video
    fault,             \* input: the one I/O fault of this run, if any
    frames_per_action, \* local of process_video after lines 275-277
    tempDir,           \* "none" | "exists" | "removed"
    tempFiles,         \* frames persisted in the temporary directory
    frame_count,       \* local frame_count of the running loop
    capOpen,           \* a VideoCapture handle is open
    outOpen,           \* the cv2.VideoWriter is open
    opens,             \* number of VideoCapture constructions
    probes,            \* number of `ffmpeg -version` availability checks
    cmdBuilt,          \* number of get_ffmpeg_command calls
    encRuns,           \* number of runs of the encode command
    toolStatus,        \* outcome of the availability check
    encExit,           \* outcome of the encode command
    fallbacks,         \* number of entries into the OpenCV fallback
    outFrames,         \* frames handed to the fallback writer
    output,            \* the finished output video
    outcome,           \* how the run ended
    renderEnded,       \* the render loop left through `if not ret: break`
    progressReports,   \* progress lines printed
    writerFps,         \* frame rate the cv2.VideoWriter was constructed with
    cmdFps,            \* frame rate handed to get_ffmpeg_command
    retval,            \* what process_video returned to its caller
    main_pc,           \* SpecMain: position of main in its code
    inputExists,       \* SpecMain: os.path.exists(input_video)
    exitStatus,        \* SpecMain: exit status of the script
    ov_pc,             \* SpecOverlay: "input" | "done"
    ov_in,             \* SpecOverlay: arguments of create_icon_overlay
    ov_out,            \* SpecOverlay: its result
    cmd_pc,            \* SpecCmd: "input" | "done"
    cmd_in,            \* SpecCmd: arguments of get_ffmpeg_command and probes
    cmd_out            \* SpecCmd: its result

inputs == <<canOpen, nFrames, totalFrames, actualFps, action_list, fpaArg,
            fpsHint, fault>>
mainVars == <<main_pc, inputExists, exitStatus>>
ovVars == <<ov_pc, ov_in, ov_out>>
cmdVars == <<cmd_pc, cmd_in, cmd_out>>
vars == <<pc, canOpen, nFrames, totalFrames, actualFps, action_list, fpaArg,
          fpsHint, fault, writerFps, cmdFps, retval, main_pc, inputExists,
          exitStatus, frames_per_action, tempDir, tempFiles, frame_count, capOpen,
          outOpen, opens, probes, cmdBuilt, encRuns, toolStatus, encExit,
          fallbacks, outFrames, output, outcome, renderEnded, progressReports,
          ov_pc, ov_in, ov_out, cmd_pc, cmd_in, cmd_out>>

(***************************************************************************)
(* Bounds of the model.                                                    *)
(***************************************************************************)
MaxFrames == 3      \* source lengths 0..MaxFrames (and ProgressEvery)
MaxActions == 2     \* action lists of length 0..MaxActions
MaxFpa == 2         \* explicit frames_per_action up to MaxFpa
MaxFrameNo == 10    \* SpecOverlay: frame numbers 0..MaxFrameNo
MaxTotal == 3       \* SpecOverlay: total_frames 0..MaxTotal
MaxMajor == 6       \* SpecCmd: one-digit major versions 0..MaxMajor

(***************************************************************************)
(* Python values.                                                          *)
(***************************************************************************)
\* Python's None for an optional integer: the empty set; an integer v is {v}.
None == {}
Some(v) == {v}
Val(x) == CHOOSE v \in x : TRUE

\* current_action = None
NoAction == "<None>"

NoExc == "no"

\* str.lower() on the labels the model uses
Lower(s) ==
    CASE s = "W" -> "w"
      [] s = "A" -> "a"
      [] s = "S" -> "s"
      [] s = "D" -> "d"
      [] OTHER -> s

\* a // b : floor division, ZeroDivisionError when b = 0
PyFloorDiv(a, b) ==
    IF b = 0 THEN [exc |-> "ZeroDivisionError", val |-> 0]
    ELSE [exc |-> NoExc, val |-> a \div b]

\* A[i] on a Python list: negative i counts from the end, IndexError outside
PyIndex(A, i) ==
    IF i >= 0 /\ i < Len(A) THEN [exc |-> NoExc, val |-> A[i + 1]]
    ELSE IF i < 0 /\ i >= -Len(A) THEN [exc |-> NoExc, val |-> A[Len(A) + i + 1]]
    ELSE [exc |-> "IndexError", val |-> NoAction]

(***************************************************************************)
(* create_icon_overlay                                                     *)
(***************************************************************************)
\* the keys of icon_positions
IconKeys == {"w", "a", "s", "d"}

\* lines 34-37: icon_spacing and icon_y_offset
icon_spacing == 100
IconYOffset(height) == height - 150

\* lines 40-46: icon_positions for a frame of the given size
IconPositions(width, height) ==
    LET center_x == width \div 2
        icon_y_offset == IconYOffset(height)
    IN  {[key |-> "w", x |-> center_x - icon_spacing,
                       y |-> icon_y_offset - icon_spacing],
         [key |-> "a", x |-> center_x - icon_spacing, y |-> icon_y_offset],
         [key |-> "s", x |-> center_x, y |-> icon_y_offset],
         [key |-> "d", x |-> center_x + icon_spacing, y |-> icon_y_offset]}

\* lines 64-98: the icons drawn, one at each position; a call that raised
\* before the loop has drawn none
DrawnIcons(exc, shape) ==
    IF exc = NoExc THEN IconPositions(shape.w, shape.h) ELSE {}

\* `if frames_per_action:` is true for an integer other than 0
Truthy_NotNone(x) == x # None
Truthy(x) == x # None /\ Val(x) # 0

\* `if action_index < len(action_list):`
InRange_OffByOne(idx, n) == idx <= n
InRange(idx, n) == idx < n

\* `is_active = (key == current_action)`
IsActive_AnyCurrent(key, current) == current # NoAction
IsActive(key, current) == key = current

\* frames_per_action after lines 49-51
DefaultFramesPerAction(A, fpa, total) ==
    IF fpa = None /\ total # None
    THEN LET q == PyFloorDiv(Val(total), Len(A))
         IN  [exc |-> q.exc, fpa |-> IF q.exc = NoExc THEN Some(q.val) ELSE None]
    ELSE [exc |-> NoExc, fpa |-> fpa]

\* current_action after lines 53-61
CurrentAction_Cyclic(A, f, fpa) ==
    IF Truthy(fpa) /\ Len(A) > 0
    THEN LET q == PyFloorDiv(f, Val(fpa))
         IN  IF q.exc # NoExc THEN [exc |-> q.exc, val |-> NoAction]
             ELSE [exc |-> NoExc, val |-> Lower(A[(q.val % Len(A)) + 1])]
    ELSE [exc |-> NoExc, val |-> NoAction]
CurrentAction(A, f, fpa) ==
    IF Truthy(fpa)
    THEN LET q == PyFloorDiv(f, Val(fpa))
         IN  IF q.exc # NoExc THEN [exc |-> q.exc, val |-> NoAction]
             ELSE IF InRange(q.val, Len(A))
                  THEN LET e == PyIndex(A, q.val)
                       IN  IF e.exc # NoExc THEN e
                           ELSE [exc |-> NoExc, val |-> Lower(e.val)]
                  ELSE [exc |-> NoExc, val |-> NoAction]
    ELSE [exc |-> NoExc, val |-> NoAction]

\* the overlay of one frame: the exception raised (if any), the label that
\* is highlighted and the icons drawn in the active state
CreateIconOverlay(A, f, fpa, total) ==
    LET d == DefaultFramesPerAction(A, fpa, total)
    IN  IF d.exc # NoExc
        THEN [exc |-> d.exc, current |-> NoAction, active |-> {}]
        ELSE LET c == CurrentAction(A, f, d.fpa)
             IN  IF c.exc # NoExc
                 THEN [exc |-> c.exc, current |-> NoAction, active |-> {}]
                 ELSE [exc |-> NoExc, current |-> c.val,
                       active |-> {k \in IconKeys : IsActive(k, c.val)}]

(***************************************************************************)
(* get_ffmpeg_version and get_ffmpeg_command                               *)
(***************************************************************************)
\* the arguments of a command line: literals, str(fps), the f-string
\* scale={width}:{height}, and paths
Lit(str) == [lit |-> str]
StrOf(n) == [str |-> n]
Scale(w, h) == [scale |-> <<w, h>>]
PathArg(path) == [path |-> path]

\* int() of a string of decimal digits
RECURSIVE DigitsToInt(_)
DigitsToInt(ds) ==
    IF ds = <<>> THEN 0
    ELSE 10 * DigitsToInt(SubSeq(ds, 1, Len(ds) - 1)) + ds[Len(ds)]

\* re.search(r'ffmpeg version (\d+)\.', version_line): the first line as
\* the text before the version token, the digits the token starts with and
\* whether a dot follows them
VersionMatch(line) ==
    IF line.head = "ffmpeg version " /\ line.digits # <<>> /\ line.dot
    THEN Some(DigitsToInt(line.digits))
    ELSE None

\* get_ffmpeg_version for one outcome of `ffmpeg -version`
GetFfmpegVersion_NoExcept(vprobe) ==
    IF vprobe.raises THEN [exc |-> "OSError", version |-> None]
    ELSE IF vprobe.rc = 0
         THEN [exc |-> NoExc, version |-> VersionMatch(vprobe.line)]
         ELSE [exc |-> NoExc, version |-> None]
GetFfmpegVersion(vprobe) ==
    IF vprobe.raises THEN [exc |-> NoExc, version |-> None]
    ELSE IF vprobe.rc = 0
         THEN [exc |-> NoExc, version |-> VersionMatch(vprobe.line)]
         ELSE [exc |-> NoExc, version |-> None]

\* os.path.splitext(output_path)[1].lower() on the extensions of the model
LowerExt_Identity(ext) == ext
LowerExt(ext) ==
    CASE ext = ".MP4" -> ".mp4"
      [] ext = ".WebM" -> ".webm"
      [] ext = ".AVI" -> ".avi"
      [] OTHER -> ext

\* the branch of the if / elif chain of lines 138, 174, 188, 219
ContainerOf_NoWebm(ext) ==
    IF ext = ".mp4" THEN "mp4"
    ELSE IF ext = ".avi" THEN "avi"
    ELSE "default"
ContainerOf(ext) ==
    IF ext = ".mp4" THEN "mp4"
    ELSE IF ext = ".webm" THEN "webm"
    ELSE IF ext = ".avi" THEN "avi"
    ELSE "default"

\* 'libx264' in result.stdout: a substring test on the codec listing
NamesLibx264(name) == name \in {"libx264", "libx264rgb"}
ListingHasLibx264(listing) == \E name \in listing : NamesLibx264(name)

\* the head of the command of the mp4, avi and default branches
\* (lines 140-147, 190-197, 221-228)
BaseArgs_NoOverwrite(pattern, fps, w, h) ==
    <<Lit("ffmpeg"), Lit("-framerate"), StrOf(fps), Lit("-i"),
      PathArg(pattern), Lit("-pix_fmt"), Lit("yuv420p"), Lit("-vf"),
      Scale(w, h)>>
BaseArgs(pattern, fps, w, h) ==
    <<Lit("ffmpeg"), Lit("-y"), Lit("-framerate"), StrOf(fps), Lit("-i"),
      PathArg(pattern), Lit("-pix_fmt"), Lit("yuv420p"), Lit("-vf"),
      Scale(w, h)>>

\* the codec arguments (lines 149-163, repeated at 199-210 and 230-241):
\* libx264 when the listing names it, -q:v 3 when it does not, and libx264
\* again when `ffmpeg -codecs` raises
CodecArgs_QualityOnRaise(cprobe) ==
    IF cprobe.raises THEN <<Lit("-q:v"), Lit("3")>>
    ELSE IF ListingHasLibx264(cprobe.listing)
         THEN <<Lit("-c:v"), Lit("libx264"), Lit("-crf"), Lit("23")>>
         ELSE <<Lit("-q:v"), Lit("3")>>
CodecArgs(cprobe) ==
    IF cprobe.raises
    THEN <<Lit("-c:v"), Lit("libx264"), Lit("-crf"), Lit("23")>>
    ELSE IF ListingHasLibx264(cprobe.listing)
         THEN <<Lit("-c:v"), Lit("libx264"), Lit("-crf"), Lit("23")>>
         ELSE <<Lit("-q:v"), Lit("3")>>

\* `if ffmpeg_version and ffmpeg_version >= 5:`
AtLeast5_AtLeast4(version) ==
    version # None /\ Val(version) # 0 /\ Val(version) >= 4
AtLeast5(version) ==
    version # None /\ Val(version) # 0 /\ Val(version) >= 5

\* lines 165-169 and 243-246
VersionArgsMp4(version) ==
    IF AtLeast5(version)
    THEN <<Lit("-preset"), Lit("medium"), Lit("-movflags"), Lit("+faststart")>>
    ELSE <<>>

\* lines 212-214
VersionArgsAvi(version) ==
    IF AtLeast5(version) THEN <<Lit("-preset"), Lit("medium")>> ELSE <<>>

\* lines 138-172
BuildMp4(pattern, path, fps, w, h, version, cprobe) ==
    BaseArgs(pattern, fps, w, h) \o CodecArgs(cprobe)
        \o VersionArgsMp4(version) \o <<PathArg(path)>>

\* lines 174-187
BuildWebm(pattern, path, fps, w, h) ==
    <<Lit("ffmpeg"), Lit("-y"), Lit("-framerate"), StrOf(fps), Lit("-i"),
      PathArg(pattern), Lit("-c:v"), Lit("libvpx-vp9"), Lit("-crf"),
      Lit("30"), Lit("-b:v"), Lit("0"), Lit("-pix_fmt"), Lit("yuv420p"),
      Lit("-vf"), Scale(w, h), PathArg(path)>>

\* lines 188-217
BuildAvi(pattern, path, fps, w, h, version, cprobe) ==
    BaseArgs(pattern, fps, w, h) \o CodecArgs(cprobe)
        \o VersionArgsAvi(version) \o <<PathArg(path)>>

\* lines 219-249
BuildDefault(pattern, path, fps, w, h, version, cprobe) ==
    BaseArgs(pattern, fps, w, h) \o CodecArgs(cprobe)
        \o VersionArgsMp4(version) \o <<PathArg(path)>>

\* get_ffmpeg_command: the exception raised (if any), the command, and the
\* number of runs of `ffmpeg -codecs`
GetFfmpegCommand(in) ==
    LET v == GetFfmpegVersion(in.vprobe)
        kind == ContainerOf(LowerExt(in.path.ext))
    IN  IF v.exc # NoExc
        THEN [exc |-> v.exc, cmd |-> <<>>, codecProbes |-> 0]
        ELSE [exc |-> NoExc,
              cmd |-> CASE kind = "mp4" ->
                               BuildMp4(in.pattern, in.path, in.fps, in.width,
                                        in.height, v.version, in.cprobe)
                        [] kind = "webm" ->
                               BuildWebm(in.pattern, in.path, in.fps, in.width,
                                         in.height)
                        [] kind = "avi" ->
                               BuildAvi(in.pattern, in.path, in.fps, in.width,
                                        in.height, v.version, in.cprobe)
                        [] OTHER ->
                               BuildDefault(in.pattern, in.path, in.fps,
                                            in.width, in.height, v.version,
                                            in.cprobe),
              codecProbes |-> IF kind = "webm" THEN 0 ELSE 1]

\* outcomes of `ffmpeg -version`: the call raises, exits non-zero, or exits
\* 0 with a first line
VersionLines ==
    [head : {"ffmpeg version ", "FFmpeg "},
     digits : {<<>>, <<1, 0>>} \cup {<<d>> : d \in 0..MaxMajor},
     dot : BOOLEAN]
NoLine == [head |-> "", digits |-> <<>>, dot |-> FALSE]
VersionProbes ==
    {[raises |-> TRUE, rc |-> 1, line |-> NoLine],
     [raises |-> FALSE, rc |-> 1, line |-> NoLine]}
    \cup [raises : {FALSE}, rc : {0}, line : VersionLines]

\* outcomes of `ffmpeg -codecs`: the call raises, or prints a listing
CodecProbes ==
    {[raises |-> TRUE, listing |-> {}]}
    \cup [raises : {FALSE},
          listing : SUBSET {"libx264", "libx264rgb", "mpeg4"}]

Extensions == {".mp4", ".MP4", ".webm", ".WebM", ".avi", ".AVI", ".mov", ""}

FramePattern == [stem |-> "frame_%06d", ext |-> ".png"]

CmdInputs ==
    [pattern : {FramePattern},
     path : [stem : {"out"}, ext : Extensions],
     fps : {24, 30},
     width : {640},
     height : {480},
     vprobe : VersionProbes,
     cprobe : CodecProbes]

CmdIdle ==
    /\ cmd_pc = "idle"
    /\ cmd_in = [pattern |-> FramePattern,
                 path |-> [stem |-> "out", ext |-> ".mp4"],
                 fps |-> 24, width |-> 640, height |-> 480,
                 vprobe |-> [raises |-> TRUE, rc |-> 1, line |-> NoLine],
                 cprobe |-> [raises |-> TRUE, listing |-> {}]]
    /\ cmd_out = [exc |-> NoExc, cmd |-> <<>>, codecProbes |-> 0]

(***************************************************************************)
(* process_video: inputs                                                   *)
(***************************************************************************)
\* `if frame_count % 100 == 0:`
ProgressEvery == 100

\* source lengths: short ones, and one long enough for a progress line
FrameCounts == (0..MaxFrames) \cup {ProgressEvery}

\* labels of the action lists of the pipeline runs
PipelineLabels == {"w", "D"}

SeqsUpTo(S, n) == UNION {[1..k -> S] : k \in 0..n}

\* the fault of a run: none, or one of
\*   decode       cap.read() returns ret = False at frame `at`
\*   save         cv2.imwrite returns False for frame `at`
\*   write        out.write raises for frame `at`
\*   reopen       the source cannot be re-opened for the fallback
\*   writer_open  the cv2.VideoWriter does not open
NoFault == [kind |-> "none", at |-> 0]
Faults(n) ==
    {NoFault}
    \cup {[kind |-> k, at |-> i] : k \in {"decode", "save", "write"},
                                   i \in {j \in 0..MaxFrames : j < n}}
    \cup {[kind |-> k, at |-> 0] : k \in {"reopen", "writer_open"}}

NoOutput == [via |-> "none", frames |-> <<>>]
NoOutcome == "running"

Terminal == pc \in {"returned", "raised"}

\* cap.read() yields a frame: the source has one at this position and it
\* decodes
HasFrame_OffByOne(pos) ==
    pos < nFrames - 1 /\ ~(fault.kind = "decode" /\ fault.at = pos)
HasFrame(pos) ==
    pos < nFrames /\ ~(fault.kind = "decode" /\ fault.at = pos)

\* number of frames cap.read() delivers before it first returns ret = False
Delivered == IF fault.kind = "decode" THEN fault.at ELSE nFrames

\* leaving the `with tempfile.TemporaryDirectory()` block, by return or by
\* an exception, removes the directory
TempDirRelease_Leak(td) == td
TempDirRelease(td) == IF td = "exists" THEN "removed" ELSE td

\* the except clause that handles an exception raised in the try block of
\* lines 317-341: (FileNotFoundError, CalledProcessError) first, then Exception
HandlerFor_NotFoundOnly(e) ==
    IF e = "FileNotFoundError" THEN "fallback" ELSE "error_return"
HandlerFor(e) ==
    IF e \in {"FileNotFoundError", "CalledProcessError"}
    THEN "fallback" ELSE "error_return"

\* `if not cap.isOpened(): ... return`
AfterOpen_NoCheck(opened) == "props"
AfterOpen(opened) == IF opened THEN "props" ELSE "returned"

\* what the encoder makes of frame_%06d.png: the files numbered 0, 1, ...
\* up to the first missing number
RECURSIVE EncodedFrames(_, _)
EncodedFrames(files, k) ==
    IF \E i \in 1..Len(files) : files[i].idx = k
    THEN LET i == CHOOSE j \in 1..Len(files) : files[j].idx = k
         IN  <<files[i]>> \o EncodedFrames(files, k + 1)
    ELSE <<>>

(***************************************************************************)
(* process_video: initial state                                            *)
(***************************************************************************)
OverlayIdle ==
    /\ ov_pc = "idle"
    /\ ov_in = [A |-> <<>>, f |-> 0, fpa |-> None, total |-> None,
                shape |-> [h |-> 480, w |-> 640]]
    /\ ov_out = [exc |-> NoExc, current |-> NoAction, active |-> {},
                 drawn |-> {}]

\* no VideoWriter constructed, no command built, no value returned yet
NoFps == -1
NoReturn == "<running>"
RunIdle ==
    /\ writerFps = NoFps
    /\ cmdFps = NoFps
    /\ retval = NoReturn

\* main is not part of the run
NotExited == -1
MainIdle ==
    /\ main_pc = "idle"
    /\ inputExists = TRUE
    /\ exitStatus = NotExited

\* the fps argument: the default of line 251 and another rate
FpsHints == {24, 30}

\* the arguments of process_video and what the environment will do to it;
\* in the long source a fault with a position strikes the first frame
RunInputs ==
    /\ canOpen \in BOOLEAN
    /\ nFrames \in FrameCounts
    /\ totalFrames \in {0, nFrames}
    /\ actualFps \in {0, 24}
    /\ action_list \in SeqsUpTo(PipelineLabels, MaxActions)
    /\ fpsHint \in FpsHints
    /\ fault \in Faults(nFrames)
    /\ (nFrames > MaxFrames => fault.at = 0)

\* the locals and the environment before process_video has done anything
RunStart ==
    /\ frames_per_action = fpaArg
    /\ tempDir = "none"
    /\ tempFiles = <<>>
    /\ frame_count = 0
    /\ capOpen = FALSE
    /\ outOpen = FALSE
    /\ opens = 0
    /\ probes = 0
    /\ cmdBuilt = 0
    /\ encRuns = 0
    /\ toolStatus = "unknown"
    /\ encExit = "not_run"
    /\ fallbacks = 0
    /\ outFrames = <<>>
    /\ output = NoOutput
    /\ outcome = NoOutcome
    /\ renderEnded = FALSE
    /\ progressReports = 0
    /\ RunIdle

Init ==
    /\ pc = "start"
    /\ RunInputs
    /\ fpaArg \in {None} \cup {Some(v) : v \in (-1)..MaxFpa}
    /\ RunStart
    /\ MainIdle
    /\ OverlayIdle
    /\ CmdIdle

\* lines 266, 352, 361, 396 are bare `return` statements and the function
\* body has no other: whatever the outcome, the caller receives None
PyNone == "None"
ReturnValue(oc) == PyNone

\* the run ends: by `return` (how = "returned") or by an exception that
\* leaves process_video (how = "raised")
Finish(how, oc) ==
    /\ pc' = how
    /\ outcome' = oc
    /\ tempDir' = TempDirRelease(tempDir)
    /\ retval' = IF how = "returned" THEN ReturnValue(oc) ELSE retval

(***************************************************************************)
(* process_video: one action per step                                      *)
(***************************************************************************)
\* lines 262-266: open the input video
OpenSource ==
    /\ pc = "start"
    /\ opens' = opens + 1
    /\ capOpen' = canOpen
    /\ IF AfterOpen(canOpen) = "returned"
       THEN Finish("returned", "InputOpenFailed")
       ELSE /\ pc' = "props"
            /\ UNCHANGED <<outcome, tempDir, retval>>
    /\ UNCHANGED <<inputs, ovVars, cmdVars, mainVars, writerFps, cmdFps,
                   frames_per_action, tempFiles, frame_count,
                   outOpen, probes, cmdBuilt, encRuns, toolStatus, encExit,
                   fallbacks, outFrames, output, renderEnded, progressReports>>

\* lines 268-285: read the video properties, compute frames_per_action when
\* it was not given, print the properties (total_frames / actual_fps)
GetProperties ==
    /\ pc = "props"
    /\ LET q == IF fpaArg = None
                THEN PyFloorDiv(totalFrames, Len(action_list))
                ELSE [exc |-> NoExc, val |-> Val(fpaArg)]
           \* float division by actual_fps = 0.0 raises ZeroDivisionError too
           raises == q.exc # NoExc \/ actualFps = 0
       IN  /\ frames_per_action' =
                  IF q.exc = NoExc THEN Some(q.val) ELSE frames_per_action
           /\ IF raises
              THEN Finish("raised", "Uncaught")
              ELSE /\ pc' = "mktemp"
                   /\ UNCHANGED <<outcome, tempDir, retval>>
    /\ UNCHANGED <<inputs, ovVars, cmdVars, mainVars, writerFps, cmdFps,
                   tempFiles, frame_count, capOpen, outOpen,
                   opens, probes, cmdBuilt, encRuns, toolStatus, encExit,
                   fallbacks, outFrames, output, renderEnded, progressReports>>

\* line 288: entering the `with tempfile.TemporaryDirectory()` block creates
\* the directory
TempDirAcquire_Lazy(td) == td
TempDirAcquire(td) == "exists"

\* lines 287-291: enter the `with tempfile.TemporaryDirectory()` block
CreateTempDir ==
    /\ pc = "mktemp"
    /\ tempDir' = TempDirAcquire(tempDir)
    /\ frame_count' = 0
    /\ pc' = "render"
    /\ UNCHANGED <<inputs, ovVars, cmdVars, mainVars, writerFps, cmdFps,
                   frames_per_action, tempFiles, capOpen,
                   outOpen, opens, probes, cmdBuilt, encRuns, toolStatus,
                   encExit, fallbacks, outFrames, output, outcome, renderEnded,
                   progressReports, retval>>

\* the progress indicator of both loops, for the new frame_count n:
\* (n / total_frames) raises ZeroDivisionError when total_frames is 0
ProgressDue(n) == n % ProgressEvery = 0
ProgressRaises(n) == ProgressDue(n) /\ totalFrames = 0

\* lines 292-309: one iteration of the render loop that got a frame
RenderFrame ==
    /\ pc = "render"
    /\ HasFrame(frame_count)
    /\ LET ov == CreateIconOverlay(action_list, frame_count, frames_per_action,
                                   Some(totalFrames))
           saved == ~(fault.kind = "save" /\ fault.at = frame_count)
       IN  IF ov.exc # NoExc
           THEN /\ Finish("raised", "Uncaught")
                /\ UNCHANGED <<tempFiles, frame_count, progressReports>>
           ELSE /\ tempFiles' =
                       IF saved
                       THEN Append(tempFiles, [idx |-> frame_count,
                                               label |-> ov.current,
                                               active |-> ov.active])
                       ELSE tempFiles
                /\ frame_count' = frame_count + 1
                /\ IF ProgressRaises(frame_count + 1)
                   THEN /\ Finish("raised", "Uncaught")
                        /\ UNCHANGED progressReports
                   ELSE /\ progressReports' =
                               IF ProgressDue(frame_count + 1)
                               THEN progressReports + 1 ELSE progressReports
                        /\ UNCHANGED <<pc, outcome, tempDir, retval>>
    /\ UNCHANGED <<inputs, ovVars, cmdVars, mainVars, writerFps, cmdFps,
                   frames_per_action, capOpen, outOpen, opens,
                   probes, cmdBuilt, encRuns, toolStatus, encExit, fallbacks,
                   outFrames, output, renderEnded>>

\* lines 293-295, 311-314: cap.read() returns ret = False, the loop ends and
\* the capture is released
RenderLoopEnd ==
    /\ pc = "render"
    /\ ~HasFrame(frame_count)
    /\ renderEnded' = TRUE
    /\ capOpen' = FALSE
    /\ pc' = "probe"
    /\ UNCHANGED <<inputs, ovVars, cmdVars, mainVars, writerFps, cmdFps,
                   frames_per_action, tempDir, tempFiles,
                   frame_count, outOpen, opens, probes, cmdBuilt, encRuns,
                   toolStatus, encExit, fallbacks, outFrames, output, outcome,
                   progressReports, retval>>

\* control after an exception e raised inside the try block of line 317
Dispatch(e) ==
    IF HandlerFor(e) = "fallback"
    THEN \* lines 343-344
         /\ fallbacks' = fallbacks + 1
         /\ pc' = "fallback"
         /\ UNCHANGED <<outcome, tempDir, retval>>
    ELSE \* lines 394-396
         /\ Finish("returned", "EncoderError")
         /\ UNCHANGED fallbacks

\* lines 317-319: subprocess.run(['ffmpeg', '-version'], check=True)
ProbeTool ==
    /\ pc = "probe"
    /\ \E r \in {"ok", "FileNotFoundError", "CalledProcessError", "OSError"} :
          /\ toolStatus' = r
          /\ probes' = probes + 1
          /\ IF r = "ok"
             THEN /\ pc' = "build"
                  /\ UNCHANGED <<fallbacks, outcome, tempDir, retval>>
             ELSE Dispatch(r)
    /\ UNCHANGED <<inputs, ovVars, cmdVars, mainVars, writerFps, cmdFps,
                   frames_per_action, tempFiles, frame_count,
                   capOpen, outOpen, opens, cmdBuilt, encRuns, encExit,
                   outFrames, output, renderEnded, progressReports>>

\* line 325: the frame rate given to get_ffmpeg_command is actual_fps
CommandFps(actual, hint) == actual

\* lines 321-330: build the encode command
BuildCommand ==
    /\ pc = "build"
    /\ cmdBuilt' = cmdBuilt + 1
    /\ cmdFps' = CommandFps(actualFps, fpsHint)
    /\ pc' = "encode"
    /\ UNCHANGED <<inputs, ovVars, cmdVars, mainVars, writerFps, retval,
                   frames_per_action, tempDir, tempFiles,
                   frame_count, capOpen, outOpen, opens, probes, encRuns,
                   toolStatus, encExit, fallbacks, outFrames, output, outcome,
                   renderEnded, progressReports>>

\* lines 335-341: `if result.returncode == 0:` prints success, the else
\* branch raises
AfterEncode_AlwaysRaise(r) == "raise"
AfterEncode(r) == IF r = "exit0" THEN "complete" ELSE "raise"

\* lines 332-341: run the encode command; a non-zero exit status raises
\* Exception("FFmpeg failed") inside the try block
RunEncoder ==
    /\ pc = "encode"
    /\ \E r \in {"exit0", "nonzero", "FileNotFoundError", "OSError"} :
          /\ encExit' = r
          /\ encRuns' = encRuns + 1
          /\ IF AfterEncode(r) = "complete"
             THEN /\ output' = [via |-> "ffmpeg",
                                frames |-> EncodedFrames(tempFiles, 0)]
                  /\ Finish("returned", "PrimarySuccess")
                  /\ UNCHANGED fallbacks
             ELSE /\ Dispatch(IF r \in {"exit0", "nonzero"}
                               THEN "Exception" ELSE r)
                  /\ UNCHANGED output
    /\ UNCHANGED <<inputs, ovVars, cmdVars, mainVars, writerFps, cmdFps,
                   frames_per_action, tempFiles, frame_count,
                   capOpen, outOpen, opens, probes, cmdBuilt, toolStatus,
                   outFrames, renderEnded, progressReports>>

\* line 356: the frame rate given to cv2.VideoWriter is actual_fps
WriterFps(actual, hint) == actual

\* lines 349-361: what the fallback does after re-opening the source and
\* constructing the writer: both are checked, and either failure returns
FallbackOpenResult_NoWriterCheck(kind) ==
    IF kind = "reopen" THEN "fail_reopen" ELSE "loop"
FallbackOpenResult(kind) ==
    IF kind = "reopen" THEN "fail_reopen"
    ELSE IF kind = "writer_open" THEN "fail_writer"
    ELSE "loop"

\* lines 346-364: re-open the source and create the cv2.VideoWriter
FallbackOpen ==
    /\ pc = "fallback"
    /\ opens' = opens + 1
    /\ LET r == FallbackOpenResult(fault.kind)
       IN  IF r = "fail_reopen"
           THEN \* lines 350-352
                /\ Finish("returned", "FallbackFailed")
                /\ UNCHANGED <<capOpen, outOpen, frame_count, writerFps>>
           ELSE IF r = "fail_writer"
           THEN \* lines 356-361: cap.release(); return
                /\ writerFps' = WriterFps(actualFps, fpsHint)
                /\ Finish("returned", "FallbackFailed")
                /\ capOpen' = FALSE
                /\ UNCHANGED <<outOpen, frame_count>>
           ELSE /\ writerFps' = WriterFps(actualFps, fpsHint)
                /\ capOpen' = TRUE
                /\ outOpen' = TRUE
                /\ frame_count' = 0
                /\ pc' = "fallback_loop"
                /\ UNCHANGED <<outcome, tempDir, retval>>
    /\ UNCHANGED <<inputs, ovVars, cmdVars, mainVars, cmdFps, frames_per_action,
                   tempFiles, probes, cmdBuilt, encRuns, toolStatus, encExit,
                   fallbacks, outFrames, output, renderEnded, progressReports>>

\* lines 365-381, 390-392: one iteration of the fallback loop that got a
\* frame; any exception is caught by `except Exception` and ends the run
FallbackFrame ==
    /\ pc = "fallback_loop"
    /\ HasFrame(frame_count)
    /\ LET ov == CreateIconOverlay(action_list, frame_count, frames_per_action,
                                   Some(totalFrames))
           writeRaises == fault.kind = "write" /\ fault.at = frame_count
       IN  IF ov.exc # NoExc \/ writeRaises
           THEN /\ Finish("returned", "FallbackFailed")
                /\ UNCHANGED <<outFrames, frame_count, progressReports>>
           ELSE /\ outFrames' = Append(outFrames, [idx |-> frame_count,
                                                   label |-> ov.current,
                                                   active |-> ov.active])
                /\ frame_count' = frame_count + 1
                /\ IF ProgressRaises(frame_count + 1)
                   THEN /\ Finish("returned", "FallbackFailed")
                        /\ UNCHANGED progressReports
                   ELSE /\ progressReports' =
                               IF ProgressDue(frame_count + 1)
                               THEN progressReports + 1 ELSE progressReports
                        /\ UNCHANGED <<pc, outcome, tempDir, retval>>
    /\ UNCHANGED <<inputs, ovVars, cmdVars, mainVars, writerFps, cmdFps,
                   frames_per_action, tempFiles, capOpen,
                   outOpen, opens, probes, cmdBuilt, encRuns, toolStatus,
                   encExit, fallbacks, output, renderEnded>>

\* lines 366-368, 383-388: the fallback loop ends, capture and writer are
\* released
FallbackEnd ==
    /\ pc = "fallback_loop"
    /\ ~HasFrame(frame_count)
    /\ capOpen' = FALSE
    /\ outOpen' = FALSE
    /\ output' = [via |-> "opencv", frames |-> outFrames]
    /\ Finish("returned", "FallbackSuccess")
    /\ UNCHANGED <<inputs, ovVars, cmdVars, mainVars, writerFps, cmdFps,
                   frames_per_action, tempFiles, frame_count,
                   opens, probes, cmdBuilt, encRuns, toolStatus, encExit,
                   fallbacks, outFrames, renderEnded, progressReports>>

Next ==
    \/ OpenSource
    \/ GetProperties
    \/ CreateTempDir
    \/ RenderFrame
    \/ RenderLoopEnd
    \/ ProbeTool
    \/ BuildCommand
    \/ RunEncoder
    \/ FallbackOpen
    \/ FallbackFrame
    \/ FallbackEnd

Spec == Init /\ [][Next]_vars

TypeOK ==
    /\ pc \in {"start", "props", "mktemp", "render", "probe", "build",
               "encode", "fallback", "fallback_loop", "returned", "raised",
               "idle", "not_called"}
    /\ tempDir \in {"none", "exists", "removed"}
    /\ frame_count \in 0..ProgressEvery

(***************************************************************************)
(* create_icon_overlay on bounded inputs                                   *)
(***************************************************************************)
\* labels of the action lists given to create_icon_overlay
OverlayLabels == {"w", "a", "S", "d", "x"}

\* the action list and the frame numbers of the worked examples
ExampleActions == <<"w", "a", "s", "d">>
ExampleFrames == {24, 25, 99}
ExampleTotals == {10, 100}

\* frame.shape[:2] of the frames given to create_icon_overlay: an even and
\* an odd width
FrameShapes == {[h |-> 480, w |-> 640], [h |-> 360, w |-> 481]}

InitOverlay ==
    /\ ov_pc = "input"
    /\ ov_in \in [A : SeqsUpTo(OverlayLabels, MaxActions) \cup {ExampleActions},
                  f : (0..MaxFrameNo) \cup ExampleFrames,
                  fpa : {None} \cup {Some(v) : v \in (-2)..MaxFpa} \cup {Some(25)},
                  total : {None} \cup {Some(v) : v \in (0..MaxTotal) \cup ExampleTotals},
                  shape : FrameShapes]
    /\ ov_out = [exc |-> NoExc, current |-> NoAction, active |-> {},
                 drawn |-> {}]
    /\ pc = "idle"
    /\ canOpen = FALSE
    /\ nFrames = 0
    /\ totalFrames = 0
    /\ actualFps = 0
    /\ action_list = <<>>
    /\ fpaArg = None
    /\ fpsHint = 24
    /\ fault = NoFault
    /\ RunStart
    /\ MainIdle
    /\ CmdIdle

\* lines 16-100: one call of create_icon_overlay
ApplyOverlay ==
    /\ ov_pc = "input"
    /\ LET r == CreateIconOverlay(ov_in.A, ov_in.f, ov_in.fpa, ov_in.total)
       IN  ov_out' = [exc |-> r.exc, current |-> r.current, active |-> r.active,
                      drawn |-> DrawnIcons(r.exc, ov_in.shape)]
    /\ ov_pc' = "done"
    /\ UNCHANGED <<ov_in, cmdVars, inputs, pc, frames_per_action, tempDir, tempFiles,
                   frame_count, capOpen, outOpen, opens, probes, cmdBuilt,
                   encRuns, toolStatus, encExit, fallbacks, outFrames, output,
                   outcome, renderEnded, progressReports, writerFps, cmdFps, retval,
                   mainVars>>

NextOverlay == ApplyOverlay

SpecOverlay == InitOverlay /\ [][NextOverlay]_vars

(***************************************************************************)
(* get_ffmpeg_command on bounded inputs                                    *)
(***************************************************************************)
\* process_video is not running
PipelineIdle ==
    /\ pc = "idle"
    /\ canOpen = FALSE
    /\ nFrames = 0
    /\ totalFrames = 0
    /\ actualFps = 0
    /\ action_list = <<>>
    /\ fpaArg = None
    /\ fpsHint = 24
    /\ fault = NoFault
    /\ RunStart
    /\ MainIdle

InitCmd ==
    /\ cmd_pc = "input"
    /\ cmd_in \in CmdInputs
    /\ cmd_out = [exc |-> NoExc, cmd |-> <<>>, codecProbes |-> 0]
    /\ PipelineIdle
    /\ OverlayIdle

\* lines 117-249: one call of get_ffmpeg_command
ApplyCommand ==
    /\ cmd_pc = "input"
    /\ cmd_out' = GetFfmpegCommand(cmd_in)
    /\ cmd_pc' = "done"
    /\ UNCHANGED <<cmd_in, ovVars, inputs, pc, frames_per_action, tempDir,
                   tempFiles, frame_count, capOpen, outOpen, opens, probes,
                   cmdBuilt, encRuns, toolStatus, encExit, fallbacks,
                   outFrames, output, outcome, renderEnded, progressReports, writerFps, cmdFps, retval,
                   mainVars>>

NextCmd == ApplyCommand

SpecCmd == InitCmd /\ [][NextCmd]_vars

(***************************************************************************)
(* main: the input check, the call of process_video, the end of the script *)
(***************************************************************************)
\* a missing file cannot be opened; main passes no frames_per_action
InitMain ==
    /\ main_pc = "check"
    /\ inputExists \in BOOLEAN
    /\ exitStatus = NotExited
    /\ pc = "not_called"
    /\ RunInputs
    /\ (~inputExists => ~canOpen)
    /\ fpaArg = None
    /\ RunStart
    /\ OverlayIdle
    /\ CmdIdle

\* exit status of the interpreter when main ends: main returns (lines 479
\* and 492 alike) and the script ends with status 0; an exception that
\* leaves process_video leaves main too, and the status is 1
ExitStatus(how, oc) == IF how = "raised" THEN 1 ELSE 0

\* lines 427-490: read the configuration; when the input does not exist,
\* list the candidates and return, otherwise call process_video
MainCheck ==
    /\ main_pc = "check"
    /\ IF ~inputExists
       THEN /\ main_pc' = "exited"
            /\ exitStatus' = ExitStatus("returned", "InputMissing")
            /\ UNCHANGED pc
       ELSE /\ main_pc' = "calling"
            /\ pc' = "start"
            /\ UNCHANGED exitStatus
    /\ UNCHANGED <<inputs, ovVars, cmdVars, inputExists, frames_per_action,
                   tempDir, tempFiles, frame_count, capOpen, outOpen, opens,
                   probes, cmdBuilt, encRuns, toolStatus, encExit, fallbacks,
                   outFrames, output, outcome, renderEnded, progressReports,
                   writerFps, cmdFps, retval>>

\* lines 490-495: process_video has ended; its return value is discarded,
\* "Done!" is printed and main returns, or the exception propagates
MainExit ==
    /\ main_pc = "calling"
    /\ Terminal
    /\ main_pc' = "exited"
    /\ exitStatus' = ExitStatus(pc, outcome)
    /\ UNCHANGED <<inputs, ovVars, cmdVars, inputExists, pc, frames_per_action,
                   tempDir, tempFiles, frame_count, capOpen, outOpen, opens,
                   probes, cmdBuilt, encRuns, toolStatus, encExit, fallbacks,
                   outFrames, output, outcome, renderEnded, progressReports,
                   writerFps, cmdFps, retval>>

NextMain ==
    \/ MainCheck
    \/ OpenSource
    \/ GetProperties
    \/ CreateTempDir
    \/ RenderFrame
    \/ RenderLoopEnd
    \/ ProbeTool
    \/ BuildCommand
    \/ RunEncoder
    \/ FallbackOpen
    \/ FallbackFrame
    \/ FallbackEnd
    \/ MainExit

SpecMain == InitMain /\ [][NextMain]_vars

(***************************************************************************)
(* Properties of process_video (checked under Spec)                        *)
(***************************************************************************)
Unavailable == {"FileNotFoundError", "CalledProcessError"}
Succeeded == outcome \in {"PrimarySuccess", "FallbackSuccess"}
Failed == Terminal /\ ~Succeeded

\* the inputs the data model allows, in a run where nothing but the exit
\* status of the encoder goes wrong
PlainRun ==
    /\ Len(action_list) > 0
    /\ actualFps > 0
    /\ totalFrames = nFrames
    /\ fpaArg = None
    /\ fault = NoFault
    /\ toolStatus # "OSError"
    /\ encExit \notin {"OSError", "FileNotFoundError"}

\* C1: once the encode command has been run and has returned a non-zero
\* exit status, the run is in the fallback (entered exactly once) or has
\* ended through it; it has not ended as an encoder error.
C1_NonZeroExitFallsBack ==
    encExit = "nonzero" => (fallbacks = 1 /\ outcome # "EncoderError")

\* C2: when process_video has returned or raised, whatever the outcome, the
\* temporary frame directory does not exist.
C2_TempDirGone ==
    Terminal => tempDir # "exists"

C2_Witness ==
    /\ Terminal
    /\ outcome = "FallbackFailed"
    /\ tempDir = "removed"

\* C3: once the availability check has found the tool not callable (binary
\* not found, or the version command failed), no command has been built or
\* run, the fallback has been entered, and the run is in the fallback or has
\* ended through it.
C3_ToolUnavailableFallsBack ==
    toolStatus \in Unavailable =>
        /\ cmdBuilt = 0
        /\ encRuns = 0
        /\ fallbacks = 1
        /\ pc \in {"fallback", "fallback_loop", "returned"}
        /\ outcome \in {NoOutcome, "FallbackSuccess", "FallbackFailed"}

C3_Witness ==
    /\ toolStatus = "CalledProcessError"
    /\ pc = "fallback_loop"
    /\ frame_count > 0

\* C4: a run on allowed inputs that has ended in failure has ended as
\* InputOpenFailed or as a failed fallback; if the encode command was run,
\* the fallback was attempted; the fallback is entered at most once.
C4_OnlyTwoTerminalFailures ==
    /\ (Failed /\ PlainRun) => outcome \in {"InputOpenFailed", "FallbackFailed"}
    /\ (Failed /\ PlainRun /\ encRuns > 0) => fallbacks = 1
    /\ fallbacks <= 1

\* the order of the phases of a run
PhaseRank(p) ==
    CASE p = "start" -> 0
      [] p = "props" -> 1
      [] p = "mktemp" -> 2
      [] p = "render" -> 3
      [] p = "probe" -> 4
      [] p = "build" -> 5
      [] p = "encode" -> 6
      [] p = "fallback" -> 7
      [] p = "fallback_loop" -> 8
      [] OTHER -> 9

C6_InputOpenFailureIsImmediate ==
    (~canOpen /\ pc # "start") =>
        /\ pc = "returned"
        /\ outcome = "InputOpenFailed"
        /\ opens = 1
        /\ frame_count = 0
        /\ tempFiles = <<>>
        /\ tempDir = "none"
        /\ probes = 0
        /\ cmdBuilt = 0
        /\ encRuns = 0
        /\ fallbacks = 0
        /\ ~outOpen
        /\ ~capOpen
        /\ outFrames = <<>>

C6_Witness ==
    /\ ~canOpen
    /\ pc = "returned"
    /\ outcome = "InputOpenFailed"

\* the frames a completed fallback writes for this source and action list:
\* frame i carries the overlay computed for index i
FallbackReference ==
    [i \in 1..nFrames |->
        LET ov == CreateIconOverlay(action_list, i - 1, frames_per_action,
                                    Some(totalFrames))
        IN  [idx |-> i - 1, label |-> ov.current, active |-> ov.active]]

\* C10: on the same source and action list, a run whose availability check
\* failed and whose fallback completed, and a run whose encode command
\* exited non-zero, both end with the same frames in the output: frame i
\* with the overlay of index i.
C10_NonZeroExitSameAsFallback ==
    /\ (Terminal /\ PlainRun /\ toolStatus \in Unavailable) =>
           output.frames = FallbackReference
    /\ (Terminal /\ PlainRun /\ encExit = "nonzero") =>
           output.frames = FallbackReference

(***************************************************************************)
(* Properties of create_icon_overlay (checked under SpecOverlay)           *)
(***************************************************************************)
\* frames_per_action as given, or floor(total_frames / len(action_list))
EffectiveFpa ==
    IF ov_in.fpa # None THEN ov_in.fpa
    ELSE IF ov_in.total # None /\ Len(ov_in.A) > 0
         THEN Some(Val(ov_in.total) \div Len(ov_in.A))
         ELSE None

\* C7: for a frame index f, a non-empty action list A and a positive
\* frames_per_action p (given, or floor(total_frames / len(A)) when not
\* given), the active label is lower(A[f div p]) when f div p < len(A) and
\* none otherwise; 100 frames and 4 actions give w at 24, a at 25, d at 99;
\* 10 frames and 4 actions give none at 8 and 9.
C7_ActiveLabel ==
    (ov_pc = "done" /\ Len(ov_in.A) > 0) =>
        /\ (EffectiveFpa # None /\ Val(EffectiveFpa) > 0) =>
               LET i == ov_in.f \div Val(EffectiveFpa)
               IN  /\ ov_out.exc = NoExc
                   /\ ov_out.current =
                          IF i < Len(ov_in.A) THEN Lower(ov_in.A[i + 1])
                          ELSE NoAction
        /\ (ov_in.A = ExampleActions /\ ov_in.fpa = None) =>
               /\ ov_in.total = Some(100) =>
                      /\ EffectiveFpa = Some(25)
                      /\ ov_in.f = 24 => ov_out.current = "w"
                      /\ ov_in.f = 25 => ov_out.current = "a"
                      /\ ov_in.f = 99 => ov_out.current = "d"
               /\ ov_in.total = Some(10) =>
                      /\ EffectiveFpa = Some(2)
                      /\ ov_in.f \in {8, 9} => ov_out.current = NoAction

C7_Witness ==
    /\ ov_pc = "done"
    /\ ov_in.A = ExampleActions
    /\ ov_in.fpa = None
    /\ ov_in.total = Some(100)
    /\ ov_in.f = 25
    /\ ov_out.current = "a"

\* C8: when frames_per_action is 0 (given, or computed as 0 for a non-empty
\* action list longer than the frame count) or is undefined, the call raises
\* nothing and no label is active, for every frame index.
C8_ZeroFpaIsNone ==
    (/\ ov_pc = "done"
     /\ \/ ov_in.fpa = Some(0)
        \/ ov_in.fpa = None /\ ov_in.total = None
        \/ /\ ov_in.fpa = None
           /\ ov_in.total # None
           /\ Len(ov_in.A) > Val(ov_in.total)) =>
        /\ ov_out.exc = NoExc
        /\ ov_out.current = NoAction
        /\ ov_out.active = {}

C8_Witness ==
    /\ ov_pc = "done"
    /\ ov_in.fpa = Some(0)
    /\ ov_in.f = MaxFrameNo
    /\ Len(ov_in.A) > 0
    /\ ov_out.current = NoAction

\* C9: for every frame, action list and frames_per_action, at most one of
\* the four icons is drawn in the active state.
C9_AtMostOneActive ==
    ov_pc = "done" => Cardinality(ov_out.active) <= 1

C9_Witness ==
    /\ ov_pc = "done"
    /\ ov_out.active = {"s"}
    /\ Len(ov_in.A) = 2

(***************************************************************************)
(* Properties of get_ffmpeg_command (checked under SpecCmd)                *)
(***************************************************************************)
Args(cmd) == {cmd[i] : i \in 1..Len(cmd)}

\* argument a is directly followed by argument b
HasPair(cmd, a, b) ==
    \E i \in 1..(Len(cmd) - 1) : cmd[i] = a /\ cmd[i + 1] = b

\* the extensions that select each container, whatever their case
Mp4Like == {".mp4", ".MP4", ".mov", ""}
AviLike == {".avi", ".AVI"}
WebmLike == {".webm", ".WebM"}

\* `ffmpeg -version` ran, exited 0 and its first line carries a major version
MajorKnown ==
    /\ ~cmd_in.vprobe.raises
    /\ cmd_in.vprobe.rc = 0
    /\ cmd_in.vprobe.line.head = "ffmpeg version "
    /\ cmd_in.vprobe.line.digits # <<>>
    /\ cmd_in.vprobe.line.dot

MajorAtLeast5 ==
    MajorKnown /\ DigitsToInt(cmd_in.vprobe.line.digits) >= 5

HasPreset(cmd) == Lit("-preset") \in Args(cmd)
HasFastStart(cmd) == Lit("-movflags") \in Args(cmd)

\* C11: for an output path ending in .webm the command is the fixed VP9
\* command (libvpx-vp9, -crf 30, -b:v 0) whatever the version and codec
\* probes give: no libx264, no -q:v, no preset, no fast-start flag, and
\* `ffmpeg -codecs` is not run.
C11_WebmFixedCommand ==
    (cmd_pc = "done" /\ cmd_in.path.ext = ".webm") =>
        /\ cmd_out.exc = NoExc
        /\ cmd_out.cmd =
               <<Lit("ffmpeg"), Lit("-y"), Lit("-framerate"),
                 StrOf(cmd_in.fps), Lit("-i"), PathArg(cmd_in.pattern),
                 Lit("-c:v"), Lit("libvpx-vp9"), Lit("-crf"), Lit("30"),
                 Lit("-b:v"), Lit("0"), Lit("-pix_fmt"), Lit("yuv420p"),
                 Lit("-vf"), Scale(cmd_in.width, cmd_in.height),
                 PathArg(cmd_in.path)>>
        /\ Lit("libx264") \notin Args(cmd_out.cmd)
        /\ Lit("-q:v") \notin Args(cmd_out.cmd)
        /\ ~HasPreset(cmd_out.cmd)
        /\ ~HasFastStart(cmd_out.cmd)
        /\ cmd_out.codecProbes = 0

C11_Witness ==
    /\ cmd_pc = "done"
    /\ cmd_in.path.ext = ".webm"
    /\ MajorAtLeast5
    /\ ~cmd_in.cprobe.raises
    /\ "libx264" \in cmd_in.cprobe.listing
    /\ HasPair(cmd_out.cmd, Lit("-c:v"), Lit("libvpx-vp9"))

\* C12: -preset medium is in the command exactly when the container is mp4,
\* avi or an unknown extension and the major version is known and >= 5;
\* -movflags +faststart exactly when the container is mp4 or an unknown
\* extension and the major version is known and >= 5.
C12_PresetAndFastStart ==
    cmd_pc = "done" =>
        /\ HasPair(cmd_out.cmd, Lit("-preset"), Lit("medium")) <=>
               (cmd_in.path.ext \in Mp4Like \cup AviLike /\ MajorAtLeast5)
        /\ HasPreset(cmd_out.cmd) <=>
               HasPair(cmd_out.cmd, Lit("-preset"), Lit("medium"))
        /\ HasPair(cmd_out.cmd, Lit("-movflags"), Lit("+faststart")) <=>
               (cmd_in.path.ext \in Mp4Like /\ MajorAtLeast5)
        /\ HasFastStart(cmd_out.cmd) <=>
               HasPair(cmd_out.cmd, Lit("-movflags"), Lit("+faststart"))

C12_Witness ==
    /\ cmd_pc = "done"
    /\ cmd_in.path.ext = ".avi"
    /\ cmd_in.vprobe.line.digits = <<5>>
    /\ MajorAtLeast5
    /\ HasPreset(cmd_out.cmd)
    /\ ~HasFastStart(cmd_out.cmd)

\* the lower-case extension of the container an extension selects
CanonExt(ext) ==
    IF ext \in WebmLike THEN ".webm"
    ELSE IF ext \in AviLike THEN ".avi"
    ELSE ".mp4"

AllButLast(cmd) == SubSeq(cmd, 1, Len(cmd) - 1)

\* C13: the command for an extension in any case, and for any other or
\* missing extension, is the command for .mp4, .webm or .avi (for other
\* extensions: .mp4) under the same probe outcomes, apart from the output
\* path that ends it.
C13_ExtensionSelectsContainer ==
    cmd_pc = "done" =>
        LET ref == GetFfmpegCommand(
                       [cmd_in EXCEPT !.path.ext = CanonExt(cmd_in.path.ext)])
        IN  /\ cmd_out.exc = NoExc
            /\ cmd_out.cmd # <<>>
            /\ AllButLast(cmd_out.cmd) = AllButLast(ref.cmd)
            /\ cmd_out.cmd[Len(cmd_out.cmd)] = PathArg(cmd_in.path)

C13_Witness ==
    /\ cmd_pc = "done"
    /\ cmd_in.path.ext = ".mov"
    /\ MajorAtLeast5
    /\ HasFastStart(cmd_out.cmd)

\* the listing of `ffmpeg -codecs` contains the text libx264
ListingNamesPrimary ==
    cmd_in.cprobe.listing \cap {"libx264", "libx264rgb"} # {}

UsesPrimaryCodec(cmd) ==
    /\ HasPair(cmd, Lit("-c:v"), Lit("libx264"))
    /\ HasPair(cmd, Lit("-crf"), Lit("23"))
    /\ Lit("-q:v") \notin Args(cmd)

UsesGenericQuality(cmd) ==
    /\ HasPair(cmd, Lit("-q:v"), Lit("3"))
    /\ Lit("libx264") \notin Args(cmd)

\* C14 as stated: for mp4, avi and unknown extensions the command uses
\* libx264 with -crf 23 when the listing contains it, and -q:v 3 without
\* libx264 when the listing lacks it or the codec probe raises.
C14_Original ==
    (cmd_pc = "done" /\ cmd_in.path.ext \in Mp4Like \cup AviLike) =>
        IF ~cmd_in.cprobe.raises /\ ListingNamesPrimary
        THEN UsesPrimaryCodec(cmd_out.cmd)
        ELSE UsesGenericQuality(cmd_out.cmd)

\* C14 as amended: for mp4, avi and unknown extensions the command uses
\* libx264 with -crf 23 when the listing contains it and also when the
\* codec probe raises; it carries -q:v 3 without libx264 only when the
\* probe ran and the listing lacks libx264.
C14_CodecFallback ==
    (cmd_pc = "done" /\ cmd_in.path.ext \in Mp4Like \cup AviLike) =>
        IF cmd_in.cprobe.raises \/ ListingNamesPrimary
        THEN UsesPrimaryCodec(cmd_out.cmd)
        ELSE UsesGenericQuality(cmd_out.cmd)

C14_Witness ==
    /\ cmd_pc = "done"
    /\ cmd_in.path.ext = ".mp4"
    /\ cmd_in.cprobe.raises
    /\ UsesPrimaryCodec(cmd_out.cmd)

\* C15: every command returned contains -y, -pix_fmt yuv420p, the scale
\* filter for the given width and height, the input frame rate and the
\* input frame pattern.
C15_CommonArguments ==
    (cmd_pc = "done" /\ cmd_out.exc = NoExc) =>
        /\ Lit("-y") \in Args(cmd_out.cmd)
        /\ HasPair(cmd_out.cmd, Lit("-pix_fmt"), Lit("yuv420p"))
        /\ HasPair(cmd_out.cmd, Lit("-vf"),
                   Scale(cmd_in.width, cmd_in.height))
        /\ HasPair(cmd_out.cmd, Lit("-framerate"), StrOf(cmd_in.fps))
        /\ HasPair(cmd_out.cmd, Lit("-i"), PathArg(cmd_in.pattern))

C15_Witness ==
    /\ cmd_pc = "done"
    /\ cmd_in.path.ext = ".AVI"
    /\ cmd_in.fps = 30
    /\ ~MajorKnown
    /\ HasPair(cmd_out.cmd, Lit("-framerate"), StrOf(30))

\* C16: whatever the version probe (raises, non-zero exit, first line
\* without a version, version found) and the codec probe (raises, listing)
\* give, get_ffmpeg_version and get_ffmpeg_command raise nothing, the
\* command is complete (starts with ffmpeg, ends with the output path), and
\* without a known version it has neither preset nor fast-start flag.
C16_ProbeFailuresNotFatal ==
    cmd_pc = "done" =>
        /\ GetFfmpegVersion(cmd_in.vprobe).exc = NoExc
        /\ cmd_out.exc = NoExc
        /\ Len(cmd_out.cmd) >= 2
        /\ cmd_out.cmd[1] = Lit("ffmpeg")
        /\ cmd_out.cmd[Len(cmd_out.cmd)] = PathArg(cmd_in.path)
        /\ ~MajorKnown =>
               /\ GetFfmpegVersion(cmd_in.vprobe).version = None
               /\ ~HasPreset(cmd_out.cmd)
               /\ ~HasFastStart(cmd_out.cmd)

C16_Witness ==
    /\ cmd_pc = "done"
    /\ cmd_in.vprobe.raises
    /\ cmd_in.cprobe.raises
    /\ cmd_in.path.ext = ".mp4"
    /\ Len(cmd_out.cmd) >= 2

(***************************************************************************)
(* Properties of the fallback, the return value, the exit status and the   *)
(* frame-rate hint                                                         *)
(***************************************************************************)
\* the faults that strike inside the fallback
FallbackFaults == {"reopen", "writer_open", "write"}

\* C17: when the fallback encoder fails (the source cannot be re-opened, the
\* writer cannot be opened, or an exception occurs while frames are written)
\* the failure is reported and the run ends there: the fallback was entered
\* once, no further encode command runs, no output is finished, the run is
\* not a success, and no step follows
C17_FallbackFailureIsTerminalState ==
    /\ outcome = "FallbackFailed" =>
          /\ pc = "returned"
          /\ fallbacks = 1
          /\ encRuns <= 1
          /\ output = NoOutput
          /\ ~Succeeded
    /\ (Terminal /\ fallbacks = 1 /\ fault.kind \in FallbackFaults) =>
          outcome = "FallbackFailed"
C17_FallbackFailureIsTerminal ==
    /\ []C17_FallbackFailureIsTerminalState
    /\ [][outcome # "FallbackFailed"]_vars
C17_Witness ==
    /\ outcome = "FallbackFailed"
    /\ fault.kind = "write"
    /\ Len(outFrames) > 0
    /\ toolStatus \in Unavailable

\* C18: process_video returns a result that tells success from failure to
\* its caller
C18_ReturnTellsSuccess ==
    pc = "returned" => retval = (IF Succeeded THEN "True" ELSE "False")

\* C19: the script exits with status 0 exactly when a usable output video
\* was produced, and with a non-zero status when the input is missing or
\* cannot be opened or every encoder failed
C19_ExitStatusTellsSuccess ==
    main_pc = "exited" => (exitStatus = 0 <=> (pc = "returned" /\ Succeeded))

\* C20: the fps hint given to process_video is the frame rate of the
\* fallback writer, and the encode command is built with the frame rate
\* measured from the source
C20_HintIsWriterRate ==
    /\ writerFps # NoFps => writerFps = fpsHint
    /\ cmdFps # NoFps => cmdFps = actualFps

(***************************************************************************)
(* Properties of the render loop, the progress lines and the handles       *)
(***************************************************************************)
\* the call main makes for a source that reports a frame rate: a non-empty
\* action list and no frames_per_action; and the same with a true frame count
UsualCall == Len(action_list) > 0 /\ fpaArg = None /\ actualFps > 0
UsualRun == UsualCall /\ totalFrames = nFrames

\* frame i of the source was persisted by the render loop
Persisted(i) == \E j \in 1..Len(tempFiles) : tempFiles[j].idx = i

\* C21: a frame that cannot be decoded or saved is skipped and the render
\* loop continues: when the loop has ended, every frame of the source other
\* than the failed one has been persisted
C21_FailedFrameIsSkipped ==
    (UsualRun /\ renderEnded) =>
        \A i \in 0..(nFrames - 1) :
            \/ fault.kind \in {"decode", "save"} /\ fault.at = i
            \/ Persisted(i)

\* C22: in both loops a progress line is printed exactly when the new
\* number of processed frames is a multiple of 100, and the step that counts
\* a frame stays in its loop whatever the reported total is
C22_ProgressStep ==
    (UsualCall /\ frame_count' = frame_count + 1) =>
        /\ (progressReports' = progressReports + 1) <=> ProgressDue(frame_count')
        /\ progressReports' \in {progressReports, progressReports + 1}
        /\ pc' = pc
C22_ProgressIsSideEffectOnly == [][C22_ProgressStep]_vars

\* C24: in the render loop the k-th decoded frame is persisted under index k
\* with the overlay computed for k: after n iterations the persisted indices
\* are 0..n-1 in decode order, and a finished encode holds exactly them
C24_PersistedInDecodeOrder ==
    UsualRun =>
        /\ pc = "render" => Len(tempFiles) = frame_count
        /\ \A j \in 1..Len(tempFiles) :
              /\ tempFiles[j].idx = j - 1
              /\ tempFiles[j].label =
                     CreateIconOverlay(action_list, j - 1, frames_per_action,
                                       Some(totalFrames)).current
        /\ output.via = "ffmpeg" => output.frames = tempFiles

\* C28: once the source has been opened the run reaches the render loop: no
\* run of an opened source ends before the temporary directory was created
C28_AlwaysReachesRenderLoop ==
    (Terminal /\ canOpen) => tempDir = "removed"

\* C29: when process_video has returned, no capture handle and no writer it
\* opened is still open
C29_HandlesReleased ==
    (UsualRun /\ pc = "returned") => (~capOpen /\ ~outOpen)

\* the phases in which the render loop, the encoder or the fallback runs
Working == {"render", "probe", "build", "encode", "fallback", "fallback_loop"}

\* C23: the temporary directory is created only when the render loop is
\* about to start, after the source opened; it exists whenever the render
\* loop, the encoder or the fallback is running; it is removed once, on every
\* way out, an exception raised while encoding included
C23_TempDirState ==
    /\ pc \in {"start", "props", "mktemp"} => tempDir = "none"
    /\ tempDir # "none" => (canOpen /\ opens >= 1)
    /\ pc \in Working => tempDir = "exists"
    /\ Terminal => tempDir # "exists"
    /\ (Terminal /\ probes > 0) => tempDir = "removed"
C23_TempDirStep ==
    tempDir' # tempDir =>
        \/ tempDir = "none" /\ tempDir' = "exists" /\ pc' = "render"
        \/ tempDir = "exists" /\ tempDir' = "removed" /\ pc' \in {"returned", "raised"}
C23_TempDirScoped ==
    /\ []C23_TempDirState
    /\ [][C23_TempDirStep]_vars
C23_Witness ==
    /\ encExit = "OSError"
    /\ pc = "returned"
    /\ tempDir = "removed"
    /\ Len(tempFiles) > 0

\* C27: once the encode command has returned exit status 0 the run has
\* ended as a success of the primary path: the source was opened once, the
\* fallback was not entered, no writer was constructed, the output is the
\* encoder's, and no step follows
C27_PrimarySuccessState ==
    encExit = "exit0" =>
        /\ pc = "returned"
        /\ outcome = "PrimarySuccess"
        /\ opens = 1
        /\ fallbacks = 0
        /\ writerFps = NoFps
        /\ ~outOpen
        /\ outFrames = <<>>
        /\ output = [via |-> "ffmpeg", frames |-> EncodedFrames(tempFiles, 0)]
C27_PrimarySuccessIsFinal ==
    /\ []C27_PrimarySuccessState
    /\ [][encExit # "exit0"]_vars
C27_Witness ==
    /\ encExit = "exit0"
    /\ outcome = "PrimarySuccess"
    /\ Len(output.frames) > 1
    /\ UsualRun

(***************************************************************************)
(* Further properties of create_icon_overlay (checked under SpecOverlay)   *)
(***************************************************************************)
\* the overlay of a later frame of the same call arguments
LaterOverlay(g) == CreateIconOverlay(ov_in.A, g, ov_in.fpa, ov_in.total)

DrawnAt(k) == CHOOSE r \in ov_out.drawn : r.key = k

\* C26: the up icon (w) is drawn at the horizontal centre of the frame, one
\* spacing above the centre icon (s); a, s and d share one row at
\* x = centre - spacing, centre, centre + spacing
C26_DirectionalCluster ==
    (ov_pc = "done" /\ ov_out.exc = NoExc) =>
        LET centre == ov_in.shape.w \div 2
        IN  /\ DrawnAt("w").x = centre
            /\ DrawnAt("w").x = DrawnAt("s").x
            /\ DrawnAt("w").y = DrawnAt("s").y - icon_spacing
            /\ DrawnAt("a").x = centre - icon_spacing
            /\ DrawnAt("s").x = centre
            /\ DrawnAt("d").x = centre + icon_spacing
            /\ DrawnAt("a").y = DrawnAt("s").y
            /\ DrawnAt("d").y = DrawnAt("s").y

\* C30: for every integer frames_per_action given to create_icon_overlay,
\* negative ones included, the call does not raise and the active label is
\* none or lower(A[i]) with i = floor(f / frames_per_action), 0 <= i < len(A)
C30_NoNegativeIndex ==
    (ov_pc = "done" /\ ov_in.fpa # None) =>
        /\ ov_out.exc = NoExc
        /\ \/ ov_out.current = NoAction
           \/ /\ Val(ov_in.fpa) # 0
              /\ LET i == ov_in.f \div Val(ov_in.fpa)
                 IN  /\ 0 <= i
                     /\ i < Len(ov_in.A)
                     /\ ov_out.current = Lower(ov_in.A[i + 1])

====
